---- MODULE Spec2Model ----
(***************************************************************************)
(* CAN Bus Data Plotter (streamlit_app.py).                                *)
(*                                                                         *)
(* Three specifications over one set of variables:                         *)
(*   SpecParse  extract_data applied to a bounded set of input files;      *)
(*   SpecPlot   plot_data applied, call after call, to bounded arguments;  *)
(*   SpecMain   the session: one action per script run of main().          *)
(*                                                                         *)
(* Text is modelled character by character: a line is a sequence of        *)
(* one-character strings, without its trailing newline ('.' in the three   *)
(* patterns never matches it).  A Python float is modelled by the exact    *)
(* decimal it denotes, [m |-> mantissa, e |-> number of fraction digits],  *)
(* normalised.  A dict is a function; key order is not modelled.           *)
(***************************************************************************)
EXTENDS Integers, Sequences, FiniteSets, TLC

VARIABLES
    file,           \* extract_data: the argument of the call
    result,         \* extract_data: what the call returned and reported
    uploaded_file,  \* main: value of st.file_uploader (0 = None, else an index of SessionFiles)
    stored_plots,   \* st.session_state.stored_plots
    is_plotting,    \* st.session_state.is_plotting
    current_id,     \* st.session_state.current_id
    screen,         \* what the last script run / call wrote: messages and displayed charts
    call,           \* the last plot_data call: its arguments and how it ended
    run             \* the last script run of main: what the selector held, how many charts it met

vars == <<file, result, uploaded_file, stored_plots, is_plotting, current_id, screen, call, run>>

---------------------------------------------------------------------------
(* Bounds *)

MaxLines == 4   \* lines per input file of SpecParse
MaxPlots == 3   \* stored charts per session

None == "None"

---------------------------------------------------------------------------
(* Characters *)

Digit == {"0","1","2","3","4","5","6","7","8","9"}
HexDigit == Digit \cup {"a","b","c","d","e","f","A","B","C","D","E","F"}
Letter ==
    {"a","b","c","d","e","f","g","h","i","j","k","l","m","n","o","p","q","r","s","t","u","v","w","x","y","z",
     "A","B","C","D","E","F","G","H","I","J","K","L","M","N","O","P","Q","R","S","T","U","V","W","X","Y","Z"}
\* \w of the re module, on ASCII text
WordChar == Letter \cup Digit \cup {"_"}
\* \s of the re module and the separators of str.split(), on ASCII text within a line
Whitespace == {" ", "\t"}

HexValue ==
    [c \in HexDigit |->
        CASE c = "0" -> 0 [] c = "1" -> 1 [] c = "2" -> 2 [] c = "3" -> 3
          [] c = "4" -> 4 [] c = "5" -> 5 [] c = "6" -> 6 [] c = "7" -> 7
          [] c = "8" -> 8 [] c = "9" -> 9
          [] c \in {"a","A"} -> 10 [] c \in {"b","B"} -> 11 [] c \in {"c","C"} -> 12
          [] c \in {"d","D"} -> 13 [] c \in {"e","E"} -> 14 [] c \in {"f","F"} -> 15]

Min(S) == CHOOSE x \in S : \A y \in S : x <= y
Max(S) == CHOOSE x \in S : \A y \in S : x >= y

\* The Python str of a character sequence
RECURSIVE Str(_)
Str(s) == IF s = <<>> THEN "" ELSE Head(s) \o Str(Tail(s))

\* s[i-1:] starts with lit
StartsAt(s, i, lit) ==
    /\ i + Len(lit) - 1 <= Len(s)
    /\ \A k \in 1..Len(lit) : s[i + k - 1] = lit[k]

\* Index of the first character at or after i that is not whitespace (Len(s)+1 if none)
RECURSIVE SkipWs(_, _)
SkipWs(s, i) == IF i <= Len(s) /\ s[i] \in Whitespace THEN SkipWs(s, i + 1) ELSE i

\* Index of the last character of the maximal run of characters of C starting at i (i-1 if empty)
RECURSIVE RunEnd(_, _, _)
RunEnd(s, i, C) == IF i <= Len(s) /\ s[i] \in C THEN RunEnd(s, i + 1, C) ELSE i - 1

\* Index of the last character of the whitespace-free token starting at i
RECURSIVE TokenEnd(_, _)
TokenEnd(s, i) == IF i <= Len(s) /\ s[i] \notin Whitespace THEN TokenEnd(s, i + 1) ELSE i - 1

---------------------------------------------------------------------------
(* The three patterns of extract_data, each as pattern.search(line) *)

NoMatch == [matched |-> FALSE, key |-> "", group |-> <<>>]

\* `0x[0-9A-Fa-f]+` matches at j
HexLiteralAt(line, j) ==
    /\ StartsAt(line, j, <<"0","x">>)
    /\ j + 2 <= Len(line)
    /\ line[j + 2] \in HexDigit

\* `ID:\s*(0x[0-9A-Fa-f]+)` matches at i
IdAt(line, i) == StartsAt(line, i, <<"I","D",":">>) /\ HexLiteralAt(line, SkipWs(line, i + 3))

IdGroup(g) == [matched |-> TRUE, key |-> Str(g), group |-> g]
IdMatchAt(line, j) == IdGroup(SubSeq(line, j, RunEnd(line, j + 2, HexDigit)))
IdMatch(line, P) == IF P = {} THEN NoMatch ELSE IdMatchAt(line, SkipWs(line, Min(P) + 3))

\* re.compile(r'ID:\s*(0x[0-9A-Fa-f]+)').search(line): the leftmost match; group(1) as a str in .key
can_id_pattern(line) == IdMatch(line, {i \in 1..Len(line) : IdAt(line, i)})

DataBytesLiteral == <<"D","a","t","a"," ","B","y","t","e","s",":">>

BytesMatch(line, P) ==
    IF P = {} THEN NoMatch
    ELSE [matched |-> TRUE, key |-> "Data Bytes",
          group |-> SubSeq(line, SkipWs(line, Min(P) + Len(DataBytesLiteral)), Len(line))]

\* re.compile(r'Data Bytes:\s*(.*)').search(line); group(1) in .group
data_bytes_pattern(line) == BytesMatch(line, {i \in 1..Len(line) : StartsAt(line, i, DataBytesLiteral)})

\* `(\w+):` matches at i, the greedy \w+ ending at e
WordColon(line, e) == e + 1 <= Len(line) /\ line[e + 1] = ":"
MeasurementAt(line, i) == line[i] \in WordChar /\ WordColon(line, RunEnd(line, i, WordChar))

MeasurementGroups(line, i, e) ==
    [matched |-> TRUE, key |-> Str(SubSeq(line, i, e)),
     group |-> SubSeq(line, SkipWs(line, e + 2), Len(line))]
MeasurementMatchAt(line, i) == MeasurementGroups(line, i, RunEnd(line, i, WordChar))
MeasurementMatch(line, P) == IF P = {} THEN NoMatch ELSE MeasurementMatchAt(line, Min(P))

\* re.compile(r'(\w+):\s*(.*)').search(line): the leftmost match; groups() as (.key, .group)
measurement_pattern(line) == MeasurementMatch(line, {i \in 1..Len(line) : MeasurementAt(line, i)})

---------------------------------------------------------------------------
(* Conversions *)

\* str.split(): the whitespace-separated tokens of s
RECURSIVE split(_)
SplitToken(s, a, b) == <<SubSeq(s, a, b)>> \o split(SubSeq(s, b + 1, Len(s)))
SplitFrom(s, a) == IF a > Len(s) THEN <<>> ELSE SplitToken(s, a, TokenEnd(s, a))
split(s) == SplitFrom(s, SkipWs(s, 1))

\* str.replace(old, ''): every non-overlapping occurrence of old removed, left to right
RECURSIVE replace(_, _)
replace(s, old) ==
    IF Len(s) < Len(old) \/ s = <<>> THEN s
    ELSE IF StartsAt(s, 1, old) THEN replace(SubSeq(s, Len(old) + 1, Len(s)), old)
    ELSE <<Head(s)>> \o replace(Tail(s), old)

\* value.replace('A', '').replace('rpm', '').replace('deg', '').replace('Nm', '')
strip_units(value) ==
    replace(replace(replace(replace(value, <<"A">>), <<"r","p","m">>), <<"d","e","g">>), <<"N","m">>)

\* Value of a sequence of digits in the given base
RECURSIVE DigitsValue(_, _)
DigitsValue(ds, base) ==
    IF ds = <<>> THEN 0
    ELSE DigitsValue(SubSeq(ds, 1, Len(ds) - 1), base) * base + HexValue[ds[Len(ds)]]

\* An optional leading sign
IsSigned(t) == t # <<>> /\ t[1] \in {"+", "-"}
Unsigned(t) == IF IsSigned(t) THEN Tail(t) ELSE t
Sign(t) == IF IsSigned(t) /\ t[1] = "-" THEN 0 - 1 ELSE 1

ValueError == [ok |-> FALSE, val |-> 0]

HexDigits(ds, sign) ==
    IF ds = <<>> \/ \E k \in 1..Len(ds) : ds[k] \notin HexDigit THEN ValueError
    ELSE [ok |-> TRUE, val |-> sign * DigitsValue(ds, 16)]

HexLiteral(u, sign) ==
    IF StartsAt(u, 1, <<"0","x">>) \/ StartsAt(u, 1, <<"0","X">>)
    THEN HexDigits(SubSeq(u, 3, Len(u)), sign)
    ELSE HexDigits(u, sign)

\* int(b, 16) of a whitespace-free token: optional sign, optional 0x/0X prefix, then one or
\* more hex digits, of any count; anything else raises ValueError.  (Underscore digit
\* separators are not modelled; no input line holds '_'.)
int16(b) == HexLiteral(Unsigned(b), Sign(b))

\* A decimal, normalised: no trailing zero among the e fraction digits
RECURSIVE Normal(_, _)
Normal(m, e) == IF e > 0 /\ m % 10 = 0 THEN Normal(m \div 10, e - 1) ELSE [m |-> m, e |-> e]

FloatError == [ok |-> FALSE, val |-> [m |-> 0, e |-> 0]]

\* str.strip()
StripFrom(s, a) ==
    IF a > Len(s) THEN <<>> ELSE SubSeq(s, a, Max({k \in a..Len(s) : s[k] \notin Whitespace}))
strip(s) == StripFrom(s, SkipWs(s, 1))

\* u = digits [ "." digits ]: ie the end of the integer digits, fe the end of the literal
Dotted(u, ie) == ie + 1 <= Len(u) /\ u[ie + 1] = "."
FractionEnd(u, ie) == IF Dotted(u, ie) THEN RunEnd(u, ie + 2, Digit) ELSE ie
DecimalParts(u, sign, ie, fe) ==
    IF fe # Len(u) \/ (ie = 0 /\ fe <= 1) THEN FloatError
    ELSE [ok |-> TRUE,
          val |-> Normal(sign * DigitsValue(SubSeq(u, 1, ie) \o SubSeq(u, ie + 2, fe), 10),
                         IF fe > ie THEN fe - ie - 1 ELSE 0)]
DecimalFrom(u, sign, ie) == DecimalParts(u, sign, ie, FractionEnd(u, ie))
Decimal(u, sign) == DecimalFrom(u, sign, RunEnd(u, 1, Digit))
SignedDecimal(t) == Decimal(Unsigned(t), Sign(t))

\* float(s): surrounding whitespace stripped, optional sign, digits with at most one '.',
\* at least one digit; anything else raises ValueError.  (Exponents, inf, nan and
\* underscores are not modelled; no input line holds them after unit stripping.)
float(s) == SignedDecimal(strip(s))

---------------------------------------------------------------------------
(* Input files *)

\* The lines input files are made of
ID_0x100 == <<"I","D",":"," ","0","x","1","0","0">>
ID_0x1 == <<"I","D",":"," ","0","x","1">>
Bytes_0A_1B_2C == <<"D","a","t","a"," ","B","y","t","e","s",":"," ","0","A"," ","1","B"," ","2","C">>
Bytes_0G == <<"D","a","t","a"," ","B","y","t","e","s",":"," ","0","G">>
Bytes_1FF == <<"D","a","t","a"," ","B","y","t","e","s",":"," ","1","F","F">>
RPM_2500rpm == <<"R","P","M",":"," ","2","5","0","0","r","p","m">>
RPM_100 == <<"R","P","M",":"," ","1","0","0">>
Torque_2_5Nm == <<"T","o","r","q","u","e",":"," ","2",".","5","N","m">>
RPM_fast == <<"R","P","M",":"," ","f","a","s","t">>
Hello == <<"h","e","l","l","o">>

Lines == <<ID_0x100, ID_0x1, Bytes_0A_1B_2C, Bytes_0G, Bytes_1FF,
           RPM_2500rpm, RPM_100, Torque_2_5Nm, RPM_fast, Hello>>

LineNo(line) == CHOOSE n \in DOMAIN Lines : Lines[n] = line

\* A file: whether its bytes decode as UTF-8, and its lines, each named by its number in Lines
TextFile(ls) == [utf8 |-> TRUE, lines |-> ls]
FileOf(text) == TextFile([k \in DOMAIN text |-> LineNo(text[k])])
BinaryFile == [utf8 |-> FALSE, lines |-> <<>>]

SeqsUpTo(S, n) == UNION {[1..k -> S] : k \in 0..n}

InputFiles == {TextFile(ls) : ls \in SeqsUpTo(DOMAIN Lines, MaxLines)} \cup {BinaryFile}

\* io.StringIO(file.read().decode('utf-8')).readlines(), as line numbers
readlines(f) == f.lines

---------------------------------------------------------------------------
(* extract_data *)

\* [int(b, 16) for b in data_bytes.split()]; not ok when an int(b, 16) raises ValueError
IntsOf(toks) == [k \in DOMAIN toks |-> int16(toks[k])]
AllConverted(conv) ==
    [ok |-> \A k \in DOMAIN conv : conv[k].ok, val |-> [k \in DOMAIN conv |-> conv[k].val]]
bytes_values(data_bytes) == AllConverted(IntsOf(split(data_bytes)))

\* float(value.replace(...)...); not ok when float raises ValueError
measurement_value(value) == float(strip_units(value))

\* What extract_data computes from the text of one line
ScanMatches(id_match, bytes_match, measurement_match) ==
    [id_match |-> id_match,
     bytes_match |-> bytes_match,
     values |-> bytes_values(bytes_match.group),
     measurement_match |-> measurement_match,
     value |-> measurement_value(measurement_match.group)]
scan(line) == ScanMatches(can_id_pattern(line), data_bytes_pattern(line), measurement_pattern(line))

\* scan, tabulated for the lines of Lines
Scanned == [n \in DOMAIN Lines |-> scan(Lines[n])]

EmptyDict == <<>>

\* A faulty variant of dict_append: data[id][key] = [value]
dict_overwrite(data, id, key, value) ==
    LET inner == IF id \in DOMAIN data THEN data[id] ELSE EmptyDict
    IN  (id :> ((key :> <<value>>) @@ inner)) @@ data

\* data[id][key].append(value) on defaultdict(lambda: defaultdict(list))
dict_append(data, id, key, value) ==
    LET inner == IF id \in DOMAIN data THEN data[id] ELSE EmptyDict
        old == IF key \in DOMAIN inner THEN inner[key] ELSE <<>>
    IN  (id :> ((key :> Append(old, value)) @@ inner)) @@ data

\* A faulty variant of honoured: the match alone, whatever current_id is
honoured_without_id(match, cur) == match.matched

\* `bytes_match and current_id`, `measurement_match and current_id`
honoured(match, cur) == match.matched /\ cur # None

\* A faulty variant of on_id_line: the identifier branch also touches data[current_id]
on_id_line_creating_entry(st, id_match) ==
    [st EXCEPT !.current_id = id_match.key,
               !.data = IF id_match.key \in DOMAIN st.data THEN st.data
                        ELSE (id_match.key :> EmptyDict) @@ st.data]

\* The identifier branch: current_id = id_match.group(1); continue
on_id_line(st, id_match) == [st EXCEPT !.current_id = id_match.key]

\* The data-bytes branch; the ValueError of an int(b, 16) leaves the loop
on_bytes_line(st, values) ==
    IF ~values.ok THEN [st EXCEPT !.raised = TRUE]
    ELSE [st EXCEPT !.data = dict_append(st.data, st.current_id, "Data Bytes", values.val)]

\* The measurement branch; the ValueError of float() is caught and the line skipped
on_measurement_line(st, key, value) ==
    IF ~value.ok THEN st
    ELSE [st EXCEPT !.data = dict_append(st.data, st.current_id, key, value.val)]

\* The body of `for line in lines`, on what the line scans to
on_line(st, s) ==
    IF s.id_match.matched THEN on_id_line(st, s.id_match)
    ELSE IF honoured(s.bytes_match, st.current_id) THEN on_bytes_line(st, s.values)
    ELSE IF honoured(s.measurement_match, st.current_id)
         THEN on_measurement_line(st, s.measurement_match.key, s.value)
    ELSE st

\* The loop; an exception leaves it for the handler of the enclosing try
RECURSIVE for_lines(_, _, _)
for_lines(lines, i, st) ==
    IF i > Len(lines) \/ st.raised THEN st
    ELSE for_lines(lines, i + 1, on_line(st, Scanned[lines[i]]))

\* return data, and whether the handler called st.error
Returning(st) == [data |-> st.data, error |-> st.raised]

\* extract_data(file)
extract_data(f) ==
    IF ~f.utf8 THEN [data |-> EmptyDict, error |-> TRUE]
    ELSE Returning(for_lines(readlines(f), 1,
                             [data |-> EmptyDict, current_id |-> None, raised |-> FALSE]))

NotRun == [done |-> FALSE, data |-> EmptyDict, error |-> FALSE]
Done(r) == [done |-> TRUE, data |-> r.data, error |-> r.error]

---------------------------------------------------------------------------
(* Session state *)

NoCall ==
    [made |-> FALSE, selected_id |-> None, selected_measurement |-> None, chart_type |-> "",
     values |-> <<>>, before |-> <<>>, was_plotting |-> FALSE, outcome |-> ""]
NoRun == [made |-> FALSE, selected_id |-> None, id_changed |-> FALSE, had |-> 0]
BlankScreen == [messages |-> <<>>, charts |-> <<>>]

\* Module level: the three session_state defaults
SessionInit ==
    /\ uploaded_file = 0
    /\ stored_plots = <<>>
    /\ is_plotting = FALSE
    /\ current_id = None
    /\ screen = BlankScreen
    /\ call = NoCall
    /\ run = NoRun

session == <<uploaded_file, stored_plots, is_plotting, current_id, screen, call, run>>

---------------------------------------------------------------------------
(* SpecParse: extract_data applied to each input file *)

InitParse ==
    /\ file \in InputFiles
    /\ result = NotRun
    /\ SessionInit

Parse ==
    /\ ~result.done
    /\ result' = Done(extract_data(file))
    /\ UNCHANGED <<file, session>>

NextParse == Parse

SpecParse == InitParse /\ [][NextParse]_vars

---------------------------------------------------------------------------
(* What a file's lines say, read off the text line by line (not by running the loop) *)

IsIdLine(n) == Scanned[n].id_match.matched
IsBytesLine(n) == ~IsIdLine(n) /\ Scanned[n].bytes_match.matched
IsMeasurementLine(n) ==
    ~IsIdLine(n) /\ ~Scanned[n].bytes_match.matched /\ Scanned[n].measurement_match.matched

\* The identifier of the last identifier line before line k, None when there is none
IdBefore(lines, k) ==
    LET P == {j \in 1..(k - 1) : IsIdLine(lines[j])}
    IN  IF P = {} THEN None ELSE Scanned[lines[Max(P)]].id_match.key

TwoHexDigits(tok) == Len(tok) = 2 /\ tok[1] \in HexDigit /\ tok[2] \in HexDigit

AllTwoHexDigits(toks) == \A k \in DOMAIN toks : TwoHexDigits(toks[k])
BytesWellFormed(n) == AllTwoHexDigits(split(Scanned[n].bytes_match.group))

\* A data-bytes or measurement line whose conversion fails, in the words of C1
ConversionFails(n) ==
    \/ IsBytesLine(n) /\ ~BytesWellFormed(n)
    \/ IsMeasurementLine(n) /\ ~Scanned[n].value.ok

\* A line of one of the three documented forms
WellFormedLine(n) ==
    \/ IsIdLine(n)
    \/ IsBytesLine(n) /\ BytesWellFormed(n)
    \/ IsMeasurementLine(n) /\ Scanned[n].value.ok

WellFormed(f) == f.utf8 /\ \A k \in DOMAIN f.lines : WellFormedLine(f.lines[k])

\* The series name a line carries a value for ("" when it carries none)
NameOf(n) ==
    IF IsBytesLine(n) THEN "Data Bytes"
    ELSE IF IsMeasurementLine(n) /\ Scanned[n].value.ok THEN Scanned[n].measurement_match.key
    ELSE ""

ValueOf(n) == IF IsBytesLine(n) THEN Scanned[n].values.val ELSE Scanned[n].value.val

\* The values of lines 1..k carried for series `name` under identifier `id`, in line order
RECURSIVE ValuesOf(_, _, _, _)
ValuesOf(lines, k, id, name) ==
    IF k = 0 THEN <<>>
    ELSE LET before == ValuesOf(lines, k - 1, id, name)
         IN  IF IdBefore(lines, k) = id /\ NameOf(lines[k]) = name
             THEN Append(before, ValueOf(lines[k]))
             ELSE before

IdsIn(lines) == {Scanned[lines[k]].id_match.key : k \in {j \in DOMAIN lines : IsIdLine(lines[j])}}
NamesIn(lines) == {NameOf(lines[k]) : k \in DOMAIN lines} \ {""}

Without(ls, k) == [j \in 1..(Len(ls) - 1) |-> IF j < k THEN ls[j] ELSE ls[j + 1]]

---------------------------------------------------------------------------
(* Claims about extract_data, checked under SpecParse *)

Parsed == result.done /\ file.utf8

\* C1: a line whose conversion fails is skipped without an error message, and the Dataset
\* is the one the input without that line yields (lines after it included).
C1_FailuresIndependent ==
    Parsed =>
        \A k \in DOMAIN file.lines :
            ConversionFails(file.lines[k]) =>
                /\ ~result.error
                /\ result.data = extract_data(TextFile(Without(file.lines, k))).data

\* C2: every element of every byte sequence stored under `Data Bytes` is in 0..255.
C2_BytesInRange ==
    result.done =>
        \A id \in DOMAIN result.data :
            "Data Bytes" \in DOMAIN result.data[id] =>
                \A i \in DOMAIN result.data[id]["Data Bytes"] :
                    \A j \in DOMAIN result.data[id]["Data Bytes"][i] :
                        result.data[id]["Data Bytes"][i][j] \in 0..255

ExampleC3 == FileOf(<<RPM_100, ID_0x1>>)

\* C3 as stated: an identifier line followed by no honoured line still produces an entry;
\* `RPM: 100\nID: 0x1\n` yields a Dataset whose only key is "0x1", mapped to an empty mapping.
C3_EntryForBareIdentifier ==
    (result.done /\ file = ExampleC3) =>
        /\ DOMAIN result.data = {"0x1"}
        /\ result.data["0x1"] = EmptyDict

\* C3 as amended: an identifier line followed by no honoured line produces no entry: every
\* identifier of the Dataset has a series, each series has a value carried by a line that
\* follows that identifier, and `RPM: 100\nID: 0x1\n` yields the empty Dataset.
C3_NoEntryForBareIdentifier ==
    result.done =>
        /\ \A id \in DOMAIN result.data :
              /\ DOMAIN result.data[id] # {}
              /\ \A name \in DOMAIN result.data[id] :
                    /\ result.data[id][name] # <<>>
                    /\ \E k \in DOMAIN file.lines :
                          /\ IdBefore(file.lines, k) = id
                          /\ NameOf(file.lines[k]) = name
        /\ file = ExampleC3 => result.data = EmptyDict

C3_Witness == result.done /\ file = ExampleC3 /\ ~result.error

\* C4: lines before the first identifier line contribute nothing: the Dataset is the one
\* the input from its first identifier line on yields, and empty without identifier line.
C4_NothingBeforeFirstId ==
    Parsed =>
        LET P == {k \in DOMAIN file.lines : IsIdLine(file.lines[k])}
        IN  IF P = {} THEN result.data = EmptyDict
            ELSE result.data =
                    extract_data(TextFile(SubSeq(file.lines, Min(P), Len(file.lines)))).data

C4_Witness ==
    /\ Parsed
    /\ Len(file.lines) >= 3
    /\ NameOf(file.lines[1]) = "RPM"
    /\ NameOf(file.lines[2]) = "Data Bytes"
    /\ IsIdLine(file.lines[3])
    /\ result.data # EmptyDict

ExampleC5 == FileOf(<<ID_0x100, Bytes_0A_1B_2C, RPM_2500rpm>>)
RepeatedIdC5 == FileOf(<<ID_0x1, RPM_100, ID_0x1, RPM_2500rpm>>)

\* C5: for well-formed input each series holds exactly the values of the honoured lines
\* with that name under that identifier, in line order (repeats accumulate; a recurring
\* identifier continues its series), and the example yields the stated Dataset.
C5_SeriesInLineOrder ==
    (result.done /\ WellFormed(file)) =>
        LET lines == file.lines
        IN  /\ ~result.error
            /\ DOMAIN result.data \subseteq IdsIn(lines)
            /\ \A id \in IdsIn(lines) : \A name \in NamesIn(lines) :
                  LET expected == ValuesOf(lines, Len(lines), id, name)
                      present == id \in DOMAIN result.data /\ name \in DOMAIN result.data[id]
                  IN  /\ present <=> expected # <<>>
                      /\ present => result.data[id][name] = expected
            /\ \A id \in DOMAIN result.data : DOMAIN result.data[id] \subseteq NamesIn(lines)
            /\ file = ExampleC5 =>
                  result.data = ("0x100" :> (("Data Bytes" :> << <<10, 27, 44>> >>)
                                             @@ ("RPM" :> << [m |-> 2500, e |-> 0] >>)))

C5_Witness ==
    /\ result.done
    /\ file = RepeatedIdC5
    /\ result.data["0x1"]["RPM"] = << [m |-> 100, e |-> 0], [m |-> 2500, e |-> 0] >>

---------------------------------------------------------------------------
(* plot_data *)

color_palette == <<
    "#1f77b4", "#ff7f0e", "#2ca02c", "#d62728", "#9467bd", "#8c564b",
    "#e377c2", "#7f7f7f", "#bcbd22", "#17becf", "#1f77b4", "#ff7f0e",
    "#2ca02c", "#d62728", "#9467bd", "#8c564b", "#e377c2", "#7f7f7f" >>

\* The chart types the if/elif chain of plot_data has a branch for
SupportedCharts ==
    {"Line Chart", "Bar Chart", "Scatter Plot", "Area Chart",
     "Histogram", "Box Plot", "Heatmap", "Pie Chart"}

\* The branches that plot Value against Index
IndexedCharts == {"Line Chart", "Bar Chart", "Scatter Plot", "Area Chart", "Heatmap"}

\* data[selected_id][measurement] on the defaultdicts: a missing key reads as the empty list
series(data, selected_id, measurement) ==
    IF selected_id \in DOMAIN data /\ measurement \in DOMAIN data[selected_id]
    THEN data[selected_id][measurement]
    ELSE <<>>

\* color_palette[len(st.session_state.stored_plots) % len(color_palette)]
color_for(plots) == color_palette[(Len(plots) % Len(color_palette)) + 1]

\* df.groupby('Value').size(): each distinct value with its count
value_counts(values) ==
    {[name |-> values[i], count |-> Cardinality({j \in DOMAIN values : values[j] = values[i]})]
        : i \in DOMAIN values}

\* The figure a supported chart_type branch builds from df = {Index: 0..n-1, Value: values}.
\* selected_id and data are not part of the figure: they record the call that built it.
figure(selected_id, measurement, data, values, chart_type, color) ==
    [kind |-> chart_type,
     title |-> chart_type \o " for " \o measurement,
     x |-> IF chart_type \in IndexedCharts THEN [i \in 1..Len(values) |-> i - 1]
           ELSE IF chart_type = "Histogram" THEN values ELSE <<>>,
     y |-> IF chart_type \in IndexedCharts \/ chart_type = "Box Plot" THEN values ELSE <<>>,
     slices |-> IF chart_type = "Pie Chart" THEN value_counts(values) ELSE {},
     color |-> IF chart_type = "Heatmap" THEN "Viridis"
               ELSE IF chart_type = "Pie Chart" THEN "" ELSE color,
     width |-> 700, height |-> 400,
     selected_id |-> selected_id,
     data |-> data]

\* A faulty variant of store: st.session_state.stored_plots = [fig]
store_replacing(plots, fig) == <<fig>>

\* st.session_state.stored_plots.append(fig)
store(plots, fig) == Append(plots, fig)

\* How a call ends: the session state it leaves, what it wrote, and the record of the call
Ended(ss, selected_id, selected_measurement, chart_type, values, plots, plotting, messages, outcome) ==
    [stored_plots |-> plots, is_plotting |-> plotting, messages |-> messages,
     call |-> [made |-> TRUE, selected_id |-> selected_id,
               selected_measurement |-> selected_measurement, chart_type |-> chart_type,
               values |-> values, before |-> ss.stored_plots,
               was_plotting |-> ss.is_plotting, outcome |-> outcome]]

\* plot_data once values = data[selected_id][measurement] is read (for the calls that get there)
plot_values(ss, selected_id, selected_measurement, data, chart_type, raises, values) ==
    IF raises
    THEN Ended(ss, selected_id, selected_measurement, chart_type, values,
               ss.stored_plots, TRUE, <<>>, "raised")
    ELSE IF selected_measurement = None
    THEN Ended(ss, selected_id, selected_measurement, chart_type, values,
               ss.stored_plots, FALSE, <<"No measurement selected for plotting.">>, "no measurement")
    ELSE IF values = <<>>
    THEN Ended(ss, selected_id, selected_measurement, chart_type, values,
               ss.stored_plots, FALSE, <<>>, "empty series")
    ELSE IF chart_type \notin SupportedCharts
    THEN Ended(ss, selected_id, selected_measurement, chart_type, values,
               ss.stored_plots, FALSE, <<"Unsupported chart type: " \o chart_type>>, "unsupported")
    ELSE Ended(ss, selected_id, selected_measurement, chart_type, values,
               store(ss.stored_plots,
                     figure(selected_id, selected_measurement, data, values, chart_type,
                            color_for(ss.stored_plots))),
               FALSE, <<>>, "stored")

\* plot_data(selected_id, selected_measurement, data, chart_type) on the session state
\* ss = [stored_plots, is_plotting].  `raises`: a call between the two writes of
\* is_plotting (st.spinner, time.sleep, st.write, pd.DataFrame, px.*, fig.update_layout)
\* raises, or the script run is stopped there; no handler resets the flag.
plot_data(ss, selected_id, selected_measurement, data, chart_type, raises) ==
    plot_values(ss, selected_id, selected_measurement, data, chart_type, raises,
                series(data, selected_id, selected_measurement))

---------------------------------------------------------------------------
(* SpecPlot: plot_data called, one call after another, on bounded arguments *)

PlotFiles == {FileOf(<<ID_0x1, RPM_100, RPM_2500rpm, Torque_2_5Nm>>)}
PlotIds == {"0x1", "0x100"}
PlotMeasurements == {None, "RPM", "Torque"}
PlotChartTypes == {"Line Chart", "Pie Chart", "Pyramid Chart"}

InitPlot ==
    /\ file = BinaryFile
    /\ result = NotRun
    /\ SessionInit

\* The session after a call that ended as r
AfterCall(r) ==
    /\ Len(r.stored_plots) <= MaxPlots
    /\ stored_plots' = r.stored_plots
    /\ is_plotting' = r.is_plotting
    /\ screen' = [messages |-> r.messages, charts |-> <<>>]
    /\ call' = r.call

PlotCall ==
    \E f \in PlotFiles, selected_id \in PlotIds, selected_measurement \in PlotMeasurements,
       chart_type \in PlotChartTypes, raises \in BOOLEAN :
        /\ AfterCall(plot_data([stored_plots |-> stored_plots, is_plotting |-> is_plotting],
                               selected_id, selected_measurement, extract_data(f).data,
                               chart_type, raises))
        /\ UNCHANGED <<file, result, uploaded_file, current_id, run>>

NextPlot == PlotCall

SpecPlot == InitPlot /\ [][NextPlot]_vars

---------------------------------------------------------------------------
(* Claims about plot_data, checked under SpecPlot *)

Returned == call.made /\ call.outcome # "raised"
HasSeries == call.selected_measurement # None /\ call.values # <<>>

C8_NoDataReported ==
    (Returned /\ call.selected_measurement # None /\ call.values = <<>>) =>
        /\ stored_plots = call.before
        /\ screen.messages # <<>>

---------------------------------------------------------------------------
(* main: one script run per user interaction *)

\* The files of a session
SessionFiles == <<
    FileOf(<<ID_0x1, RPM_100, Torque_2_5Nm>>),
    FileOf(<<ID_0x1, RPM_2500rpm, ID_0x100, RPM_100>>),
    FileOf(<<ID_0x1, Bytes_0A_1B_2C>>),
    FileOf(<<Hello>>),
    BinaryFile >>

\* The chart types a session picks in the selector, among its eight options
SessionChartTypes == {"Line Chart", "Pie Chart"}

\* A faulty variant of select_id: current_id follows the selector, the stored charts stay
select_id_keeping_plots(ss, selected_id) == [ss EXCEPT !.current_id = selected_id]

\* if st.session_state.current_id != selected_id: stored_plots = []; current_id = selected_id
select_id(ss, selected_id) ==
    IF ss.current_id # selected_id
    THEN [ss EXCEPT !.stored_plots = <<>>, !.current_id = selected_id]
    ELSE ss

\* [key for key in measurements.keys() if key != 'Data Bytes']
measurement_names(data, selected_id) == DOMAIN data[selected_id] \ {"Data Bytes"}

\* What st.radio returns: one of the options, None when there is none
radio(options) == IF options = {} THEN {None} ELSE options

\* st.error(f"Error reading the file: {e}") of extract_data
ErrorMessage(r) == IF r.error THEN <<"Error reading the file">> ELSE <<>>

\* if st.session_state.stored_plots: "Previously plotted graphs:" and every stored chart
Display(messages, plots) ==
    [messages |-> messages \o (IF plots = <<>> THEN <<>> ELSE <<"Previously plotted graphs:">>),
     charts |-> plots]

\* A run that does not reach the selector
NothingSelected(messages) ==
    /\ screen' = [messages |-> messages, charts |-> <<>>]
    /\ call' = NoCall
    /\ run' = [NoRun EXCEPT !.made = TRUE, !.had = Len(stored_plots)]
    /\ UNCHANGED <<stored_plots, is_plotting, current_id>>

\* A run that reaches the selector and calls plot_data no further
NoPlot(r, ss, message) ==
    /\ stored_plots' = ss.stored_plots
    /\ screen' = Display(ErrorMessage(r) \o <<message>>, ss.stored_plots)
    /\ call' = NoCall
    /\ UNCHANGED is_plotting

\* A run whose plot_data call ended as p; an exception ends the run before the display
Plotted(r, p) ==
    /\ Len(p.stored_plots) <= MaxPlots
    /\ stored_plots' = p.stored_plots
    /\ is_plotting' = p.is_plotting
    /\ call' = p.call
    /\ screen' = IF p.call.outcome = "raised"
                 THEN [messages |-> ErrorMessage(r), charts |-> <<>>]
                 ELSE Display(ErrorMessage(r) \o p.messages, p.stored_plots)

\* main from the selectbox on: selected_id chosen, ss the session after the identifier check
Selected(r, selected_id, ss) ==
    /\ current_id' = ss.current_id
    /\ run' = [made |-> TRUE, selected_id |-> selected_id,
               id_changed |-> current_id # selected_id, had |-> Len(stored_plots)]
    /\ \/ /\ is_plotting
          /\ NoPlot(r, ss, "Please wait, the graph is being plotted...")
       \/ /\ ~is_plotting
          /\ \E selected_measurement \in radio(measurement_names(r.data, selected_id)) :
                \/ /\ selected_measurement = None
                   /\ NoPlot(r, ss, "Select a measurement to plot.")
                \/ /\ selected_measurement # None
                   /\ \E chart_type \in SessionChartTypes, raises \in BOOLEAN :
                         Plotted(r, plot_data([stored_plots |-> ss.stored_plots,
                                               is_plotting |-> is_plotting],
                                              selected_id, selected_measurement, r.data,
                                              chart_type, raises))

\* main once data = extract_data(uploaded_file) returned r
Extracted(r) ==
    \/ /\ r.data = EmptyDict
       /\ NothingSelected(ErrorMessage(r) \o <<"No data found or file is empty.">>)
    \/ /\ r.data # EmptyDict
       /\ \E selected_id \in DOMAIN r.data :
             Selected(r, selected_id,
                      select_id([stored_plots |-> stored_plots, current_id |-> current_id],
                                selected_id))

\* The script run of main() with st.file_uploader returning uf.  Every run reads the
\* uploaded file from its start, so extract_data returns the same Dataset run after run.
\* (`if selected_id:` holds in every run: an identifier is a non-empty string.)
main(uf) ==
    \/ /\ uf = 0
       /\ NothingSelected(<<>>)
    \/ /\ uf # 0
       /\ Extracted(extract_data(SessionFiles[uf]))

InitMain ==
    /\ file = BinaryFile
    /\ result = NotRun
    /\ SessionInit

\* A file is uploaded (in place of the present one, if any) and the script runs
UploadFile ==
    \E f \in DOMAIN SessionFiles :
        /\ f # uploaded_file
        /\ uploaded_file' = f
        /\ main(f)
        /\ UNCHANGED <<file, result>>

\* The uploaded file is removed and the script runs
RemoveFile ==
    /\ uploaded_file # 0
    /\ uploaded_file' = 0
    /\ main(0)
    /\ UNCHANGED <<file, result>>

\* A widget is changed (identifier, measurement or chart type) and the script runs
Interact ==
    /\ main(uploaded_file)
    /\ UNCHANGED <<file, result, uploaded_file>>

NextMain == UploadFile \/ RemoveFile \/ Interact

SpecMain == InitMain /\ [][NextMain]_vars

---------------------------------------------------------------------------
(* Claims about the session, checked under SpecMain *)

\* C6: a run whose selected identifier differs from current_id empties the stored list and
\* sets current_id before any plot request of the run, so every stored chart was rendered
\* while the identifier now in current_id was selected.
C6_ChartsOfCurrentId ==
    /\ \A i \in DOMAIN stored_plots : stored_plots[i].selected_id = current_id
    /\ (run.made /\ run.id_changed) =>
          /\ current_id = run.selected_id
          /\ call.made => call.before = <<>>
          /\ ~call.made => stored_plots = <<>>

C6_Witness ==
    /\ run.made
    /\ run.id_changed
    /\ run.had = 2
    /\ call.made
    /\ Len(stored_plots) = 1

\* C9: a plot request starts only when the session is idle, and every request leaves the
\* session idle when it ends, whatever its outcome, so no later request is blocked.
C9_NeverStuck ==
    /\ call.made => ~call.was_plotting
    /\ ~is_plotting

\* C10: every stored chart, and every displayed one, was rendered from the Dataset of the
\* file now uploaded.
C10_ChartsOfCurrentFile ==
    /\ uploaded_file # 0 =>
          \A i \in DOMAIN stored_plots :
              stored_plots[i].data = extract_data(SessionFiles[uploaded_file]).data
    /\ \A i \in DOMAIN screen.charts :
          /\ uploaded_file # 0
          /\ screen.charts[i].data = extract_data(SessionFiles[uploaded_file]).data

====
